---- MODULE Spec2Model ----
(***************************************************************************)
(* Model of the Indeed job scraper front end: the JobTable component       *)
(* (analytics, filter, sort, row rendering), the JobScraper form with the  *)
(* scrapeJobs client, and the DownloadButtons component with downloadFile. *)
(*                                                                         *)
(* A JavaScript string is a sequence of one-character strings; the value   *)
(* undefined of a string-typed field is the one-element sequence Undefined. *)
(***************************************************************************)
EXTENDS Integers, Sequences, FiniteSets, TLC

VARIABLES
    \* JobTable: props and component state
    jobs, jobsDefined, totalJobs, sortField, sortDirection, filterText,
    \* JobScraper: component state
    formData, scraperIsLoading, error, validationErrors,
    \* App: component state
    scrapeResults, isLoading,
    \* the handleSubmit calls that have not returned yet, oldest first
    submits,
    \* DownloadButtons: component state
    downloading, downloadStats,
    \* the handleDownload calls that have not returned yet, oldest first
    downloads,
    \* the texts of the alerts shown so far, oldest first
    alerts,
    \* the texts DownloadButtons gave to console.warn so far, oldest first
    warnings

tableVars == <<jobs, jobsDefined, totalJobs, sortField, sortDirection, filterText>>

scraperVars == <<formData, scraperIsLoading, error, validationErrors>>

appVars == <<scrapeResults, isLoading>>

downloadVars == <<downloading, downloadStats, downloads, alerts, warnings>>

vars == <<tableVars, scraperVars, appVars, submits, downloadVars>>

-----------------------------------------------------------------------------
(* Strings *)

Undefined == <<"undefined">>

\* JavaScript truthiness of a string-or-undefined value
Truthy(s) == s # Undefined /\ s # <<>>

UpperChars == <<"A","B","C","D","E","F","G","H","I","J","K","L","M",
                "N","O","P","Q","R","S","T","U","V","W","X","Y","Z">>
LowerChars == <<"a","b","c","d","e","f","g","h","i","j","k","l","m",
                "n","o","p","q","r","s","t","u","v","w","x","y","z">>
DigitChars == <<"0","1","2","3","4","5","6","7","8","9">>

\* position of c in the sequence s, 0 when absent
IndexOf(s, c) == IF \E i \in 1..Len(s) : s[i] = c
                 THEN CHOOSE i \in 1..Len(s) : s[i] = c
                 ELSE 0

\* the characters that occur in the model's strings
Chars == {UpperChars[i] : i \in 1..Len(UpperChars)}
         \cup {LowerChars[i] : i \in 1..Len(LowerChars)}
         \cup {DigitChars[i] : i \in 1..Len(DigitChars)}
         \cup {" ", "/", ":", "-", "."}

LowerCaseTable == [c \in Chars |-> IF IndexOf(UpperChars, c) > 0
                                   THEN LowerChars[IndexOf(UpperChars, c)]
                                   ELSE c]

toLowerCaseChar(c) == LowerCaseTable[c]

\* String.prototype.toLowerCase
toLowerCase(s) == [i \in 1..Len(s) |-> toLowerCaseChar(s[i])]

IsWhitespace(c) == c = " "

RECURSIVE trimStart(_)
trimStart(s) == IF s # <<>> /\ IsWhitespace(Head(s)) THEN trimStart(Tail(s)) ELSE s

RECURSIVE trimEnd(_)
trimEnd(s) == IF s # <<>> /\ IsWhitespace(s[Len(s)])
              THEN trimEnd(SubSeq(s, 1, Len(s) - 1))
              ELSE s

\* String.prototype.trim
trim(s) == trimEnd(trimStart(s))

\* String.prototype.includes
includes(s, sub) == \E i \in 0..(Len(s) - Len(sub)) : SubSeq(s, i + 1, i + Len(sub)) = sub

\* collation weights of String.prototype.localeCompare (root collation):
\* whitespace < punctuation < digits < letters; case is a tertiary difference,
\* lower case first
PrimaryWeightTable ==
    [c \in Chars |->
        IF c = " " THEN 1
        ELSE IF IndexOf(DigitChars, c) > 0 THEN 10 + IndexOf(DigitChars, c)
        ELSE IF IndexOf(LowerChars, LowerCaseTable[c]) > 0
             THEN 30 + IndexOf(LowerChars, LowerCaseTable[c])
        ELSE 2]

TertiaryWeightTable == [c \in Chars |-> IF IndexOf(UpperChars, c) > 0 THEN 1 ELSE 0]

PrimaryWeight(c) == PrimaryWeightTable[c]

TertiaryWeight(c) == TertiaryWeightTable[c]

Sign(n) == IF n < 0 THEN -1 ELSE IF n > 0 THEN 1 ELSE 0

\* lexicographic comparison of two sequences of integer weights
RECURSIVE CompareWeights(_, _)
CompareWeights(a, b) ==
    IF a = <<>> /\ b = <<>> THEN 0
    ELSE IF a = <<>> THEN -1
    ELSE IF b = <<>> THEN 1
    ELSE IF Head(a) # Head(b) THEN Sign(Head(a) - Head(b))
    ELSE CompareWeights(Tail(a), Tail(b))

\* String.prototype.localeCompare
localeCompare(a, b) ==
    LET p == CompareWeights([i \in 1..Len(a) |-> PrimaryWeight(a[i])],
                            [i \in 1..Len(b) |-> PrimaryWeight(b[i])])
    IN IF p # 0 THEN p
       ELSE CompareWeights([i \in 1..Len(a) |-> TertiaryWeight(a[i])],
                           [i \in 1..Len(b) |-> TertiaryWeight(b[i])])

-----------------------------------------------------------------------------
(* Array.prototype.sort: a stable sort by the comparator cmp, a function on *)
(* pairs of elements (negative: first argument first)                       *)

\* (mutant) an insertion that puts x before the elements equal to it
ArrayInsertUnstable(s, x, cmp) ==
    LET keep == {i \in 1..Len(s) : cmp[<<s[i], x>>] < 0}
        p == IF keep = {} THEN 0 ELSE CHOOSE i \in keep : \A j \in keep : j <= i
    IN SubSeq(s, 1, p) \o <<x>> \o SubSeq(s, p + 1, Len(s))

ArrayInsert(s, x, cmp) ==
    LET keep == {i \in 1..Len(s) : cmp[<<s[i], x>>] <= 0}
        p == IF keep = {} THEN 0 ELSE CHOOSE i \in keep : \A j \in keep : j <= i
    IN SubSeq(s, 1, p) \o <<x>> \o SubSeq(s, p + 1, Len(s))

RECURSIVE ArraySort(_, _)
ArraySort(s, cmp) ==
    IF s = <<>> THEN <<>>
    ELSE ArrayInsert(ArraySort(SubSeq(s, 1, Len(s) - 1), cmp), s[Len(s)], cmp)

-----------------------------------------------------------------------------
(* JobTable: derived values (useMemo) of the props and the component state  *)

FieldOf(job, field) == job[field]

\* (mutant) the operand without the case folding
FieldIncludesCaseSensitive(value, text) ==
    /\ value # Undefined
    /\ includes(value, text)

\* one operand of the filter: job.X?.toLowerCase().includes(filterText.toLowerCase())
FieldIncludes(value, text) ==
    /\ value # Undefined
    /\ includes(toLowerCase(value), toLowerCase(text))

\* the callback of jobs.filter in processedJobs
FilterCallback(job, text) ==
    \/ FieldIncludes(job.Title, text)
    \/ FieldIncludes(job.Company, text)
    \/ FieldIncludes(job.Location, text)

\* whether processedJobs applies the filter at all: if (filterText.trim())
FilterActive(text) == Truthy(trim(text))

\* (mutant) the filter step losing the first record that matches
FilteredIdxSkippingFirst(list, text) ==
    IF FilterActive(text)
    THEN LET matching == SelectSeq([i \in 1..Len(list) |-> i],
                                   LAMBDA i : FilterCallback(list[i], text))
         IN IF matching = <<>> THEN matching ELSE Tail(matching)
    ELSE [i \in 1..Len(list) |-> i]

\* the positions (in jobs) of the records that survive the filter step
FilteredIdx(list, text) ==
    IF FilterActive(text)
    THEN SelectSeq([i \in 1..Len(list) |-> i], LAMBDA i : FilterCallback(list[i], text))
    ELSE [i \in 1..Len(list) |-> i]

\* the comparator of the sort in processedJobs
SortComparator(a, b, field, direction) ==
    LET aVal == IF Truthy(FieldOf(a, field)) THEN FieldOf(a, field) ELSE <<>>
        bVal == IF Truthy(FieldOf(b, field)) THEN FieldOf(b, field) ELSE <<>>
        comparison == localeCompare(aVal, bVal)
    IN IF direction = "asc" THEN comparison ELSE -comparison

\* (mutant) the sort applied to the full list instead of the filtered one
SortedIdxOfAll(list, idx, field, direction) ==
    IF field # ""
    THEN ArraySort([i \in 1..Len(list) |-> i],
                   [p \in (1..Len(list)) \X (1..Len(list)) |->
                       SortComparator(list[p[1]], list[p[2]], field, direction)])
    ELSE idx

\* the sort step of processedJobs, on positions
SortedIdx(list, idx, field, direction) ==
    IF field # ""
    THEN ArraySort(idx, [p \in (1..Len(list)) \X (1..Len(list)) |->
                            SortComparator(list[p[1]], list[p[2]], field, direction)])
    ELSE idx

\* processedJobs as the positions of its records in jobs
ProcessedIdx(list, defined, text, field, direction) ==
    IF ~defined THEN <<>>
    ELSE SortedIdx(list, FilteredIdx(list, text), field, direction)

processedIdx == ProcessedIdx(jobs, jobsDefined, filterText, sortField, sortDirection)

\* processedJobs
processedJobs == [i \in 1..Len(processedIdx) |-> jobs[processedIdx[i]]]

-----------------------------------------------------------------------------------------------------------------------------------------------------
(* IEEE 754 binary64 arithmetic, as far as the analytics need it. A positive *)
(* double is [m, e]: m holds the 53 significand bits as the leading 1 and    *)
(* four 13-bit limbs, most significant first, and the value is               *)
(* (m as a number) * 2^(e - 52); m = <<>> is zero. Results are rounded to    *)
(* nearest, ties to even.                                                    *)

LimbBits == 13

RECURSIVE PowerOfTwo(_)
PowerOfTwo(n) == IF n <= 0 THEN 1 ELSE 2 * PowerOfTwo(n - 1)

Pow2Table == [n \in 0..30 |-> PowerOfTwo(n)]

Pow2(n) == Pow2Table[n]

LimbBase == Pow2(LimbBits)

\* the significand m plus one unit in the last place; the leading limb is 2
\* when the carry runs through
IncrementLimbs(m) ==
    LET s5 == m[5] + 1
        s4 == m[4] + (s5 \div LimbBase)
        s3 == m[3] + (s4 \div LimbBase)
        s2 == m[2] + (s3 \div LimbBase)
        s1 == m[1] + (s2 \div LimbBase)
    IN <<s1, s2 % LimbBase, s3 % LimbBase, s4 % LimbBase, s5 % LimbBase>>

\* the double nearest to m * 2^(e - 52) + (a discarded part): up tells
\* whether the discarded part is above half a unit in the last place, tie
\* whether it is exactly half
RoundToDouble(m, e, up, tie) ==
    LET roundUp == up \/ (tie /\ m[5] % 2 = 1)
        inc == IF roundUp THEN IncrementLimbs(m) ELSE m
    IN IF inc[1] = 2 THEN [m |-> <<1, 0, 0, 0, 0>>, e |-> e + 1]
       ELSE [m |-> inc, e |-> e]

\* the double nearest to k / n, for integers k >= 0 and n > 0
DivideDouble(k, n) ==
    IF k = 0 THEN [m |-> <<>>, e |-> 0]
    ELSE LET up == IF k >= n
                   THEN CHOOSE s \in 0..16 : n * Pow2(s) <= k /\ k < n * Pow2(s + 1)
                   ELSE 0
             down == IF k < n
                     THEN CHOOSE s \in 1..16 : k * Pow2(s) >= n /\ k * Pow2(s - 1) < n
                     ELSE 0
             a == k * Pow2(down)
             d == n * Pow2(up)
             r0 == a - d
             q1 == (r0 * LimbBase) \div d
             r1 == (r0 * LimbBase) % d
             q2 == (r1 * LimbBase) \div d
             r2 == (r1 * LimbBase) % d
             q3 == (r2 * LimbBase) \div d
             r3 == (r2 * LimbBase) % d
             q4 == (r3 * LimbBase) \div d
             r4 == (r3 * LimbBase) % d
         IN RoundToDouble(<<1, q1, q2, q3, q4>>, up - down, 2 * r4 > d, 2 * r4 = d)

\* the number of bits of the integer t >= 1
BitLength(t) == CHOOSE b \in 1..30 : Pow2(b - 1) <= t /\ t < Pow2(b)

\* the double nearest to x * c, for a double x and an integer 1 <= c < 2^13
TimesDouble(x, c) ==
    IF x.m = <<>> THEN x
    ELSE LET t5 == x.m[5] * c
             t4 == x.m[4] * c + (t5 \div LimbBase)
             t3 == x.m[3] * c + (t4 \div LimbBase)
             t2 == x.m[2] * c + (t3 \div LimbBase)
             t1 == x.m[1] * c + (t2 \div LimbBase)
             p == <<t1, t2 % LimbBase, t3 % LimbBase, t4 % LimbBase, t5 % LimbBase>>
             extra == BitLength(t1) - 1
             low == Pow2(extra)
             high == Pow2(LimbBits - extra)
             shifted == [i \in 1..5 |->
                            IF i = 1 THEN p[1] \div low
                            ELSE (p[i - 1] % low) * high + (p[i] \div low)]
             dropped == p[5] % low
         IN RoundToDouble(shifted, x.e + extra,
                          extra > 0 /\ 2 * dropped > low,
                          extra > 0 /\ 2 * dropped = low)

\* Math.round of a double 0 <= x < 2^13: the nearest integer, halves upwards
MathRound(x) ==
    IF x.m = <<>> \/ x.e < -1 THEN 0
    ELSE IF x.e = -1 THEN 1
    ELSE LET top == x.m[1] * LimbBase + x.m[2]
         IN (top \div Pow2(LimbBits - x.e)) + ((top \div Pow2(LimbBits - x.e - 1)) % 2)

-----
(* JobTable.analytics                                                       *)

sUnknown == <<"U","n","k","n","o","w","n">>
sNA == <<"N","/","A">>

\* an object used as a map is a sequence of <<key, value>> in insertion order
ObjectHas(obj, key) == \E i \in 1..Len(obj) : obj[i][1] = key

\* obj[key] = (obj[key] || 0) + 1
ObjectIncrement(obj, key) ==
    IF ObjectHas(obj, key)
    THEN [i \in 1..Len(obj) |-> IF obj[i][1] = key THEN <<key, obj[i][2] + 1>> ELSE obj[i]]
    ELSE Append(obj, <<key, 1>>)

\* the digit value of a character, -1 for any other character
DigitTable == [c \in Chars |-> IndexOf(DigitChars, c) - 1]

RECURSIVE DigitsValue(_)
DigitsValue(s) ==
    IF s = <<>> THEN 0
    ELSE 10 * DigitsValue(SubSeq(s, 1, Len(s) - 1)) + DigitTable[s[Len(s)]]

\* an integer-index property key: a canonical decimal numeral
IsArrayIndex(key) ==
    /\ key # <<>>
    /\ Len(key) <= 9
    /\ \A i \in 1..Len(key) : DigitTable[key[i]] >= 0
    /\ (Len(key) > 1 => key[1] # "0")

\* Object.entries / Object.keys order: integer-index keys ascending, then the
\* other keys in insertion order
ObjectEntries(obj) ==
    LET all == [i \in 1..Len(obj) |-> i]
        numeric == SelectSeq(all, LAMBDA i : IsArrayIndex(obj[i][1]))
        others == SelectSeq(all, LAMBDA i : ~IsArrayIndex(obj[i][1]))
        byValue == ArraySort(numeric, [p \in (1..Len(obj)) \X (1..Len(obj)) |->
                                DigitsValue(obj[p[1]][1]) - DigitsValue(obj[p[2]][1])])
        order == byValue \o others
    IN [i \in 1..Len(order) |-> obj[order[i]]]

\* (mutant) the fallback key only for undefined, as with ?? in place of ||
RECURSIVE CountByFieldNullish(_, _)
CountByFieldNullish(list, field) ==
    IF list = <<>> THEN <<>>
    ELSE LET value == FieldOf(list[Len(list)], field)
             key == IF value # Undefined THEN value ELSE sUnknown
         IN ObjectIncrement(CountByFieldNullish(SubSeq(list, 1, Len(list) - 1), field), key)

\* the frequency object built by jobs.forEach for one field
RECURSIVE CountByField(_, _)
CountByField(list, field) ==
    IF list = <<>> THEN <<>>
    ELSE LET value == FieldOf(list[Len(list)], field)
             key == IF Truthy(value) THEN value ELSE sUnknown
         IN ObjectIncrement(CountByField(SubSeq(list, 1, Len(list) - 1), field), key)

\* Object.entries(obj).sort((a, b) => b[1] - a[1]).slice(0, 3)
TopEntries(obj) ==
    LET entries == ObjectEntries(obj)
        set == {entries[i] : i \in 1..Len(entries)}
        sorted == ArraySort(entries, [p \in set \X set |-> p[2][2] - p[1][2]])
    IN SubSeq(sorted, 1, IF Len(sorted) < 3 THEN Len(sorted) ELSE 3)

\* job.Link && job.Link !== 'N/A' in the validLinks count
CountsAsValidLink(job) == Truthy(job.Link) /\ job.Link # sNA

ValidLinks(list) == Len(SelectSeq(list, CountsAsValidLink))

\* Math.round((validLinks / jobs.length) * 100)
ValidLinksPercentage(list) ==
    MathRound(TimesDouble(DivideDouble(ValidLinks(list), Len(list)), 100))

NoData == [none |-> TRUE]

\* the analytics memo; NoData is its null
Analytics(list, defined) ==
    IF ~defined \/ Len(list) = 0 THEN NoData
    ELSE [totalJobs |-> Len(list),
          uniqueCompanies |-> Len(ObjectEntries(CountByField(list, "Company"))),
          uniqueLocations |-> Len(ObjectEntries(CountByField(list, "Location"))),
          validLinksPercentage |-> ValidLinksPercentage(list),
          topCompanies |-> TopEntries(CountByField(list, "Company")),
          topLocations |-> TopEntries(CountByField(list, "Location"))]

analytics == Analytics(jobs, jobsDefined)

-----------------------------------------------------------------------------
(* JobTable: row rendering                                                  *)

sNoTitle == <<"N","o"," ","T","i","t","l","e">>
sUnknownCompany == <<"U","n","k","n","o","w","n"," ","C","o","m","p","a","n","y">>
sLocationNotSpecified == <<"L","o","c","a","t","i","o","n"," ","N","o","t"," ",
                           "S","p","e","c","i","f","i","e","d">>

\* (mutant) a row that links whenever Link is truthy
RenderRowAnyLink(job) ==
    [title |-> IF Truthy(job.Title) THEN job.Title ELSE sNoTitle,
     company |-> IF Truthy(job.Company) THEN job.Company ELSE sUnknownCompany,
     location |-> IF Truthy(job.Location) THEN job.Location ELSE sLocationNotSpecified,
     hyperlink |-> Truthy(job.Link)]

\* one <tr> of the table body
RenderRow(job) ==
    [title |-> IF Truthy(job.Title) THEN job.Title ELSE sNoTitle,
     company |-> IF Truthy(job.Company) THEN job.Company ELSE sUnknownCompany,
     location |-> IF Truthy(job.Location) THEN job.Location ELSE sLocationNotSpecified,
     hyperlink |-> Truthy(job.Link) /\ job.Link # sNA]

\* the no-data view replaces the table: if (!jobs || jobs.length === 0)
ShowsNoData(list, defined) == ~defined \/ Len(list) = 0

\* the rows of <tbody>
RenderedRows(list, defined, view) ==
    IF ShowsNoData(list, defined) THEN <<>>
    ELSE [i \in 1..Len(view) |-> RenderRow(view[i])]

renderedRows == RenderedRows(jobs, jobsDefined, processedJobs)

-----------------------------------------------------------------------------
(* JobTable: inputs                                                         *)

MaxJobs == 3
MaxLinkJobs == 40

sAcme == <<"A","c","m","e">>
sBeta == <<"B","e","t","a">>
sEngineer == <<"E","n","g","i","n","e","e","r">>
sAnalyst == <<"A","n","a","l","y","s","t">>
sUrl == <<"h","t","t","p",":","/","/","x">>

Job(title, company, location, link) ==
    [Title |-> title, Company |-> company, Location |-> location, Link |-> link]

\* the three records of the specification's example
ExampleJobs == <<Job(sEngineer, sAcme, Undefined, Undefined),
                 Job(<<>>, sAcme, <<>>, <<>>),
                 Job(sAnalyst, sBeta, Undefined, Undefined)>>

LinkedJob == Job(toLowerCase(sAcme), <<"7">>, <<"a"," ","b">>, sUrl)
UnlinkedJob == Job(Undefined, <<>>, sUnknown, sNA)

JobPool == {ExampleJobs[1], ExampleJobs[2], ExampleJobs[3], LinkedJob, UnlinkedJob}

JobLists == UNION {[1..n -> JobPool] : n \in 0..MaxJobs}

\* k records with a link followed by n - k without
LinkLists == {[i \in 1..n |-> IF i <= k THEN LinkedJob ELSE UnlinkedJob] :
                 <<n, k>> \in {p \in (0..MaxLinkJobs) \X (0..MaxLinkJobs) : p[2] <= p[1]}}

FilterTexts == {<<>>, <<" ">>, toLowerCase(sAcme), <<"B","E","T","A">>, <<"a"," ">>}

SortFields == {"Title", "Company", "Location"}

\* the total_jobs of a response need not be the length of its jobs
TotalJobsOf(list) == {Len(list), Len(list) + 1}

-----------------------------------------------------------------------------------------------------------------------------------------------------
(* scrapeJobs (services/api.js)                                             *)

sRemote == <<"R","e","m","o","t","e">>

\* null, and the absent response of an error that never got one
Null == [null |-> TRUE]

TitleRequiredText == "Job title is required and must be a non-empty string"
PagesRangeText == "Pages must be between 1 and 10"

MinPages == 1
MaxPages == 10

\* the two checks at the head of scrapeJobs: the message thrown, "" for none
ScrapeJobsValidation(jobTitle, pages) ==
    IF ~Truthy(jobTitle) \/ Len(trim(jobTitle)) = 0 THEN TitleRequiredText
    ELSE IF pages < MinPages \/ pages > MaxPages THEN PagesRangeText
    ELSE ""

RECURSIVE NaturalToString(_)
NaturalToString(n) ==
    IF n < 10 THEN <<DigitChars[n + 1]>>
    ELSE Append(NaturalToString(n \div 10), DigitChars[(n % 10) + 1])

\* String(n) of an integer
NumberToString(n) == IF n < 0 THEN <<"-">> \o NaturalToString(-n) ELSE NaturalToString(n)

\* parseInt of a string: an optional sign and the leading digits;
\* [nan |-> TRUE] when there are none
ParseInt(text) ==
    LET t == trimStart(text)
        negative == t # <<>> /\ t[1] = "-"
        body == IF t # <<>> /\ t[1] \in {"-", "+"} THEN Tail(t) ELSE t
        stops == {i \in 1..Len(body) : DigitTable[body[i]] < 0}
        n == IF stops = {} THEN Len(body)
             ELSE (CHOOSE i \in stops : \A j \in stops : i <= j) - 1
        digits == SubSeq(body, 1, n)
    IN IF n = 0 THEN [nan |-> TRUE, value |-> 0]
       ELSE [nan |-> FALSE,
             value |-> IF negative THEN -DigitsValue(digits) ELSE DigitsValue(digits)]

\* parseInt(pages) || 1 of a number: parseInt reads the number's string
ParseIntOrOne(pages) ==
    LET parsed == ParseInt(NumberToString(pages))
    IN IF parsed.nan \/ parsed.value = 0 THEN 1 ELSE parsed.value

\* requestData with the texts as they were entered
RequestDataUntrimmed(jobTitle, location, pages) ==
    [job_title |-> jobTitle,
     location |-> IF Truthy(location) THEN location ELSE sRemote,
     pages |-> ParseIntOrOne(pages)]

\* requestData
RequestData(jobTitle, location, pages) ==
    [job_title |-> trim(jobTitle),
     location |-> IF Truthy(trim(location)) THEN trim(location) ELSE sRemote,
     pages |-> ParseIntOrOne(pages)]

\* an error thrown before any request: new Error(text)
PlainError(text) == [message |-> text, code |-> "", response |-> Null]

ServerErrorText(status) == "Server error (" \o ToString(status) \o ")"

\* the catch block with the error codes tested before the response
NormalizedMessageCodeFirst(err) ==
    IF err.code = "ECONNABORTED" THEN "Request timed out. Scraping took too long."
    ELSE IF err.code = "ECONNREFUSED"
         THEN "Cannot connect to server. Make sure backend is running."
    ELSE IF err.response # Null
    THEN IF err.response.data.detail # "" THEN err.response.data.detail
         ELSE IF err.response.data.message # "" THEN err.response.data.message
         ELSE ServerErrorText(err.response.status)
    ELSE IF err.message # "" THEN err.message
    ELSE "Scraping failed"

\* the catch block of scrapeJobs: the normalized message of the error
NormalizedMessage(err) ==
    IF err.response # Null
    THEN IF err.response.data.detail # "" THEN err.response.data.detail
         ELSE IF err.response.data.message # "" THEN err.response.data.message
         ELSE ServerErrorText(err.response.status)
    ELSE IF err.code = "ECONNABORTED" THEN "Request timed out. Scraping took too long."
    ELSE IF err.code = "ECONNREFUSED"
         THEN "Cannot connect to server. Make sure backend is running."
    ELSE IF err.message # "" THEN err.message
    ELSE "Scraping failed"

\* the error scrapeJobs throws for the error it caught
EnhancedError(err) ==
    [message |-> NormalizedMessage(err), response |-> err.response, originalError |-> err]

-----------------------------------------------------------------------------
(* JobScraper (the form) and App                                            *)

NoErrors == [jobTitle |-> "", pages |-> ""]

\* validateForm with the upper bound of pages left out
ValidateFormNoUpperBound(data) ==
    [jobTitle |-> IF ~Truthy(trim(data.jobTitle)) THEN "Job title is required"
                  ELSE IF Len(trim(data.jobTitle)) < 2
                       THEN "Job title must be at least 2 characters"
                  ELSE "",
     pages |-> IF data.pages < MinPages THEN PagesRangeText ELSE ""]

\* validateForm with the minimum length of the title left out
ValidateFormNoMinLength(data) ==
    [jobTitle |-> IF ~Truthy(trim(data.jobTitle)) THEN "Job title is required" ELSE "",
     pages |-> IF data.pages < MinPages \/ data.pages > MaxPages
               THEN PagesRangeText
               ELSE ""]

\* the errors object validateForm builds; "" is an absent entry
ValidateForm(data) ==
    [jobTitle |-> IF ~Truthy(trim(data.jobTitle)) THEN "Job title is required"
                  ELSE IF Len(trim(data.jobTitle)) < 2
                       THEN "Job title must be at least 2 characters"
                  ELSE "",
     pages |-> IF data.pages < MinPages \/ data.pages > MaxPages
               THEN PagesRangeText
               ELSE ""]

\* Object.keys(errors).length === 0
FormIsValid(data) == ValidateForm(data) = NoErrors

\* name === 'pages' ? parseInt(value) || 1 : value
NewValue(name, value) ==
    IF name = "pages"
    THEN IF ParseInt(value).nan \/ ParseInt(value).value = 0 THEN 1 ELSE ParseInt(value).value
    ELSE value

\* handleScrapeError storing no result
ErrorResultNull(message) == Null

\* App.handleScrapeError: the result it stores
ErrorResult(message) ==
    [success |-> FALSE,
     message |-> IF message # "" THEN message ELSE "Unknown error occurred",
     jobs |-> <<>>, total_jobs |-> 0, pages_scraped |-> 0]

\* the submit button never disabled
SubmitAlwaysEnabled == TRUE

\* the submit button: disabled={isLoading}
SubmitEnabled == ~scraperIsLoading

-----------------------------------------------------------------------------
(* JobScraper: inputs                                                       *)

TitleTexts == {<<>>, <<" ">>, <<"a">>, <<" ","a"," ">>, <<"a","b">>, <<" ","d","e","v"," ">>}

LocationTexts == {sRemote, <<>>, <<" "," ">>, <<" ","N","Y"," ">>}

PagesTexts == {<<"1">>, <<"1","0">>, <<"1","5">>, <<"0">>, <<"-","2">>, <<>>, <<"2",".","5">>}

InputValues(name) ==
    IF name = "jobTitle" THEN TitleTexts
    ELSE IF name = "location" THEN LocationTexts
    ELSE PagesTexts

\* response.data of a POST /scrape that the server answered with 2xx
ScrapeData ==
    {[success |-> TRUE, message |-> "", jobs |-> <<>>, total_jobs |-> 0, pages_scraped |-> 1],
     [success |-> TRUE, message |-> "", jobs |-> ExampleJobs, total_jobs |-> 3,
      pages_scraped |-> 1],
     [success |-> FALSE, message |-> "No jobs scraped", jobs |-> <<>>, total_jobs |-> 0,
      pages_scraped |-> 0],
     [success |-> FALSE, message |-> "", jobs |-> <<>>, total_jobs |-> 0, pages_scraped |-> 0]}

\* what a 2xx answer can carry as response.data: a result, or null
ScrapeAnswers == ScrapeData \cup {Null}

\* the TypeError of response.data.total_jobs for a null response.data
NullDataText == "Cannot read properties of null (reading 'total_jobs')"

\* the errors the dynamic import of the request client rejects with
ImportErrors == {[message |-> "Loading chunk 3 failed.", code |-> "", response |-> Null]}

ErrorResponse(status, detail, message) ==
    [status |-> status, data |-> [detail |-> detail, message |-> message]]

\* the errors axios rejects a POST /scrape with
TransportErrors ==
    {[message |-> "Request failed with status code 500", code |-> "ERR_BAD_RESPONSE",
      response |-> ErrorResponse(500, "Scraper crashed", "")],
     [message |-> "Request failed with status code 422", code |-> "ERR_BAD_REQUEST",
      response |-> ErrorResponse(422, "", "Unprocessable")],
     [message |-> "Request failed with status code 502", code |-> "ERR_BAD_RESPONSE",
      response |-> ErrorResponse(502, "", "")],
     [message |-> "timeout of 300000ms exceeded", code |-> "ECONNABORTED", response |-> Null],
     [message |-> "connect ECONNREFUSED", code |-> "ECONNREFUSED", response |-> Null],
     [message |-> "Network Error", code |-> "ERR_NETWORK", response |-> Null],
     [message |-> "", code |-> "", response |-> Null]}

-----
(* JobTable: state and handlers                                             *)

\* useState('') / useState('asc') / useState('')
TableStateInit ==
    /\ sortField = ""
    /\ sortDirection = "asc"
    /\ filterText = <<>>

\* JobScraper as constructed, no submission under way
JobScraperInit ==
    /\ formData = [jobTitle |-> <<>>, location |-> sRemote, pages |-> 1]
    /\ scraperIsLoading = FALSE
    /\ error = ""
    /\ validationErrors = NoErrors
    /\ submits = <<>>

\* DownloadButtons as constructed, no download under way
DownloadButtonsInit ==
    /\ downloading = <<>>
    /\ downloadStats = [totalDownloads |-> 0, lastDownload |-> Null, downloadHistory |-> <<>>]
    /\ downloads = <<>>
    /\ alerts = <<>>
    /\ warnings = <<>>

\* JobScraper, App and DownloadButtons as constructed
ScraperInit ==
    /\ JobScraperInit
    /\ scrapeResults = Null
    /\ isLoading = FALSE
    /\ DownloadButtonsInit

TableInit ==
    /\ ScraperInit
    /\ jobsDefined \in BOOLEAN
    /\ jobs \in (IF jobsDefined THEN JobLists ELSE {<<>>})
    /\ totalJobs \in TotalJobsOf(jobs)
    /\ TableStateInit

LinksInit ==
    /\ ScraperInit
    /\ jobsDefined = TRUE
    /\ jobs \in LinkLists
    /\ totalJobs \in TotalJobsOf(jobs)
    /\ TableStateInit

\* the header cells and the filter input exist only in the table view
TableShown == ~ShowsNoData(jobs, jobsDefined)

handleSort(field) ==
    /\ TableShown
    /\ IF sortField = field
       THEN /\ sortDirection' = (IF sortDirection = "asc" THEN "desc" ELSE "asc")
            /\ UNCHANGED sortField
       ELSE /\ sortField' = field
            /\ sortDirection' = "asc"
    /\ UNCHANGED <<jobs, jobsDefined, totalJobs, filterText>>
    /\ UNCHANGED <<scraperVars, appVars, submits, downloadVars>>

handleFilterChange(value) ==
    /\ TableShown
    /\ filterText' = value
    /\ UNCHANGED <<jobs, jobsDefined, totalJobs, sortField, sortDirection>>
    /\ UNCHANGED <<scraperVars, appVars, submits, downloadVars>>

TableNext ==
    \/ \E field \in SortFields : handleSort(field)
    \/ \E value \in FilterTexts : handleFilterChange(value)

SpecTable == TableInit /\ [][TableNext]_vars

SpecLinks == LinksInit /\ [][TableNext]_vars

-----------------------------------------------------------------------------------------------------------------------------------------------------
(* JobScraper: handlers                                                     *)

handleInputChange(name, value) ==
    /\ formData' = [formData EXCEPT ![name] = NewValue(name, value)]
    /\ validationErrors' = [validationErrors EXCEPT ![name] = ""]
    /\ error' = ""
    /\ UNCHANGED <<scraperIsLoading, appVars, submits, tableVars, downloadVars>>

\* handleScrapeStart keeping the result of the scrape before
handleScrapeStartKeepingResult ==
    /\ isLoading' = TRUE
    /\ UNCHANGED scrapeResults

\* App.handleScrapeStart
handleScrapeStart ==
    /\ isLoading' = TRUE
    /\ scrapeResults' = Null

\* handleSubmit up to its first await: validateForm, and for a valid form
\* the loading state and App.handleScrapeStart
handleSubmit ==
    /\ SubmitEnabled
    /\ validationErrors' = ValidateForm(formData)
    /\ IF ~FormIsValid(formData)
       THEN UNCHANGED <<scraperIsLoading, error, appVars, submits>>
       ELSE /\ scraperIsLoading' = TRUE
            /\ error' = ""
            /\ handleScrapeStart
            /\ submits' = Append(submits, [jobTitle |-> formData.jobTitle,
                                           location |-> formData.location,
                                           pages |-> formData.pages,
                                           phase |-> "import",
                                           request |-> Null])
    /\ UNCHANGED <<formData, tableVars, downloadVars>>

RemoveAt(seq, i) == SubSeq(seq, 1, i - 1) \o SubSeq(seq, i + 1, Len(seq))

\* the catch block of handleSubmit without the finally block
SubmitFailsNoFinally(i, err) ==
    /\ error' = "Error: " \o (IF err.response # Null /\ err.response.data.detail # ""
                              THEN err.response.data.detail
                              ELSE err.message)
    /\ isLoading' = FALSE
    /\ scrapeResults' = ErrorResult(err.message)
    /\ UNCHANGED scraperIsLoading
    /\ submits' = RemoveAt(submits, i)

\* the catch and finally blocks of handleSubmit, with App.handleScrapeError
SubmitFails(i, err) ==
    /\ error' = "Error: " \o (IF err.response # Null /\ err.response.data.detail # ""
                              THEN err.response.data.detail
                              ELSE err.message)
    /\ isLoading' = FALSE
    /\ scrapeResults' = ErrorResult(err.message)
    /\ scraperIsLoading' = FALSE
    /\ submits' = RemoveAt(submits, i)

\* handleSubmit resumes after the import: scrapeJobs runs up to its await,
\* and either throws or has the POST /scrape under way
scrapeJobs(i) ==
    /\ i \in 1..Len(submits)
    /\ submits[i].phase = "import"
    /\ LET call == submits[i]
           thrown == ScrapeJobsValidation(call.jobTitle, call.pages)
       IN IF thrown # ""
          THEN SubmitFails(i, EnhancedError(PlainError(thrown)))
          ELSE /\ submits' = [submits EXCEPT ![i].phase = "post",
                                             ![i].request =
                                                 RequestData(call.jobTitle, call.location,
                                                             call.pages)]
               /\ UNCHANGED <<scraperIsLoading, error, appVars>>
    /\ UNCHANGED <<formData, validationErrors, tableVars, downloadVars>>

\* the import of the request client fails: handleSubmit runs its catch and
\* finally, scrapeJobs is not called
ImportRejects(i, err) ==
    /\ i \in 1..Len(submits)
    /\ submits[i].phase = "import"
    /\ SubmitFails(i, err)
    /\ UNCHANGED <<formData, validationErrors, tableVars, downloadVars>>

\* the POST is answered with 2xx: scrapeJobs returns response.data, or throws
\* from its catch block when response.data is null, and handleSubmit runs to
\* its end
ScrapeResolves(i, result) ==
    /\ i \in 1..Len(submits)
    /\ submits[i].phase = "post"
    /\ IF result = Null
       THEN SubmitFails(i, EnhancedError(PlainError(NullDataText)))
       ELSE /\ IF result.success
               THEN /\ isLoading' = FALSE
                    /\ scrapeResults' = result
                    /\ UNCHANGED error
               ELSE /\ error' = (IF result.message # "" THEN result.message
                                 ELSE "Scraping failed")
                    /\ isLoading' = FALSE
                    /\ scrapeResults' = ErrorResult(error')
            /\ scraperIsLoading' = FALSE
            /\ submits' = RemoveAt(submits, i)
    /\ UNCHANGED <<formData, validationErrors, tableVars, downloadVars>>

\* the POST fails: scrapeJobs throws the enhanced error and handleSubmit
\* runs its catch and finally
ScrapeRejects(i, err) ==
    /\ i \in 1..Len(submits)
    /\ submits[i].phase = "post"
    /\ SubmitFails(i, EnhancedError(err))
    /\ UNCHANGED <<formData, validationErrors, tableVars, downloadVars>>

ScrapeNext ==
    \/ \E name \in {"jobTitle", "location", "pages"} :
           \E value \in InputValues(name) : handleInputChange(name, value)
    \/ handleSubmit
    \/ \E i \in 1..Len(submits) : scrapeJobs(i)
    \/ \E i \in 1..Len(submits) : \E err \in ImportErrors : ImportRejects(i, err)
    \/ \E i \in 1..Len(submits) : \E result \in ScrapeAnswers : ScrapeResolves(i, result)
    \/ \E i \in 1..Len(submits) : \E err \in TransportErrors : ScrapeRejects(i, err)

\* the table is not under test here: no jobs prop
ScrapeInit ==
    /\ ScraperInit
    /\ jobs = <<>> /\ jobsDefined = FALSE /\ totalJobs = 0
    /\ TableStateInit

SpecScrape == ScrapeInit /\ [][ScrapeNext]_vars

\* the next step of a handleSubmit call that has not returned
SubmitStep ==
    \E i \in 1..Len(submits) :
        \/ scrapeJobs(i)
        \/ \E err \in ImportErrors : ImportRejects(i, err)
        \/ \E result \in ScrapeAnswers : ScrapeResolves(i, result)
        \/ \E err \in TransportErrors : ScrapeRejects(i, err)

\* the import settles, axios settles every request (timeout: 300000), and
\* the continuation of a settled promise runs
ScrapeFairness == WF_vars(SubmitStep)

SpecScrapeLive == SpecScrape /\ ScrapeFairness

-----------------------------------------------------------------------------
(* downloadFile (services/api.js)                                           *)

validFormats == {"csv", "excel", "json"}

\* new Error(text), which has no response
ThrownError(text) == [message |-> text, response |-> Null]

\* the catch block of downloadFile: the error it throws for the one it caught
DownloadError(err) ==
    [message |-> "Download failed", originalError |-> err, response |-> err.response]

AcceptHeader(format) ==
    IF format = "json" THEN "application/json"
    ELSE IF format = "excel"
         THEN "application/vnd.openxmlformats-officedocument.spreadsheetml.sheet"
    ELSE "text/csv"

\* the request of api.get
DownloadRequest(format) ==
    [method |-> "GET", url |-> "/download/" \o format, responseType |-> "blob",
     accept |-> AcceptHeader(format)]

-----------------------------------------------------------------------------
(* DownloadButtons                                                          *)

\* hasData for every result that is shown, with or without jobs
hasDataOfAnyResult == scrapeResults # Null

\* hasData={scrapeResults.jobs.length > 0}
hasData == scrapeResults # Null /\ Len(scrapeResults.jobs) > 0

\* the results section, JobTable and DownloadButtons: {scrapeResults && ...}
ResultsShown == scrapeResults # Null

DownloadButtonsShown == ResultsShown

\* { [format]: value }, the flags of the other formats dropped
SetDownloadingAlone(prev, format, value) == [f \in {format} |-> value]

\* { ...prev, [format]: value }
SetDownloading(prev, format, value) ==
    [f \in DOMAIN prev \cup {format} |-> IF f = format THEN value ELSE prev[f]]

\* disabled={downloading.<format>}
ButtonDisabled(format) == format \in DOMAIN downloading /\ downloading[format]

sXlsx == <<"x","l","s","x">>

\* extensions[format]
Extension(format) ==
    IF format = "csv" THEN <<"c","s","v">>
    ELSE IF format = "excel" THEN sXlsx
    ELSE IF format = "json" THEN <<"j","s","o","n">>
    ELSE Undefined

\* replace(/[:.]/g, '-')
ReplaceColonsAndDots(text) ==
    [i \in 1..Len(text) |-> IF text[i] \in {":", "."} THEN "-" ELSE text[i]]

\* substring(0, 19)
TimestampLength == 19

FileTimestamp(iso) ==
    LET replaced == ReplaceColonsAndDots(iso)
    IN SubSeq(replaced, 1, IF Len(replaced) < TimestampLength THEN Len(replaced)
                           ELSE TimestampLength)

FilenamePrefix == <<"i","n","d","e","e","d","-","j","o","b","s","-">>

Filename(format, iso) == FilenamePrefix \o FileTimestamp(iso) \o <<".">> \o Extension(format)

\* slice(-10)
HistoryLimit == 10

\* slice(0, 10)
SliceFirst(seq, n) == IF Len(seq) <= n THEN seq ELSE SubSeq(seq, 1, n)

SliceLast(seq, n) == IF Len(seq) <= n THEN seq ELSE SubSeq(seq, Len(seq) - n + 1, Len(seq))

\* console.warn of the early return
NoDataWarning == "Download attempted but no data available"

\* the alert of the catch block; the data of a response to a request with
\* responseType 'blob' is a Blob, whose detail is undefined
AlertText(err) == "Download failed: " \o err.message

-----------------------------------------------------------------------------
(* DownloadButtons: inputs                                                  *)

MaxDownloads == 2

\* the three formats of the buttons, and one that is none of them
Formats == validFormats \cup {"pdf"}

\* new Date().toISOString() at two moments, the earlier first
Timestamps ==
    <<<<"2","0","2","4","-","0","1","-","1","5","T","1","0",":","3","0",":","4","5",
        ".","1","2","3","Z">>,
      <<"2","0","2","4","-","0","1","-","1","5","T","1","0",":","3","0",":","4","6",
        ".","0","0","7","Z">>>>

\* response.data of an answered GET /download/<format>
Blobs == {[size |-> 0], [size |-> 2048]}

\* what window.URL.createObjectURL throws where it cannot take the blob
SaveErrors == {ThrownError("Failed to execute 'createObjectURL' on 'URL'")}

\* the errors axios rejects a GET /download/<format> with
DownloadTransportErrors ==
    {[message |-> "Request failed with status code 404", response |-> [status |-> 404]],
     [message |-> "Network Error", response |-> Null]}

-----------------------------------------------------------------------------
(* DownloadButtons: handlers                                                *)

\* handleDownload up to its first await
handleDownload(format) ==
    /\ DownloadButtonsShown
    /\ ~ButtonDisabled(format)
    /\ IF ~hasData
       THEN /\ warnings' = Append(warnings, NoDataWarning)
            /\ UNCHANGED <<downloading, downloads>>
       ELSE /\ downloading' = SetDownloading(downloading, format, TRUE)
            /\ downloads' = Append(downloads, [format |-> format, phase |-> "import",
                                               request |-> Null, settled |-> Null])
            /\ UNCHANGED warnings
    /\ UNCHANGED <<downloadStats, alerts, tableVars, scraperVars, appVars, submits>>

\* handleDownload resumes after the import and calls downloadFile, which runs
\* up to its await: the promise it returned is rejected, or its GET is under way
downloadFile(i) ==
    /\ i \in 1..Len(downloads)
    /\ downloads[i].phase = "import"
    /\ LET format == downloads[i].format
       IN IF format \notin validFormats
          THEN downloads' =
                   [downloads EXCEPT ![i].phase = "rejected",
                                     ![i].settled =
                                         DownloadError(ThrownError("Invalid format: " \o format))]
          ELSE downloads' = [downloads EXCEPT ![i].phase = "get",
                                              ![i].request = DownloadRequest(format)]
    /\ UNCHANGED <<downloading, downloadStats, alerts, warnings>>
    /\ UNCHANGED <<tableVars, scraperVars, appVars, submits>>

\* the GET is answered with 2xx: downloadFile returns response.data
GetResolves(i, blob) ==
    /\ i \in 1..Len(downloads)
    /\ downloads[i].phase = "get"
    /\ downloads' = [downloads EXCEPT ![i].phase = "fulfilled", ![i].request = Null,
                                      ![i].settled = blob]
    /\ UNCHANGED <<downloading, downloadStats, alerts, warnings>>
    /\ UNCHANGED <<tableVars, scraperVars, appVars, submits>>

\* the GET fails: downloadFile throws the error of its catch block
GetRejects(i, err) ==
    /\ i \in 1..Len(downloads)
    /\ downloads[i].phase = "get"
    /\ downloads' = [downloads EXCEPT ![i].phase = "rejected", ![i].request = Null,
                                      ![i].settled = DownloadError(err)]
    /\ UNCHANGED <<downloading, downloadStats, alerts, warnings>>
    /\ UNCHANGED <<tableVars, scraperVars, appVars, submits>>

\* handleDownload resumes with the blob: the file is saved, the statistics
\* are updated, and the finally block runs
DownloadSaved(i, first, second) ==
    /\ i \in 1..Len(downloads)
    /\ downloads[i].phase = "fulfilled"
    /\ LET format == downloads[i].format
           downloadInfo == [format |-> format,
                            filename |-> Filename(format, Timestamps[first]),
                            timestamp |-> Timestamps[second],
                            size |-> downloads[i].settled.size]
       IN downloadStats' =
              [totalDownloads |-> downloadStats.totalDownloads + 1,
               lastDownload |-> downloadInfo,
               downloadHistory |->
                   SliceLast(Append(downloadStats.downloadHistory, downloadInfo),
                             HistoryLimit)]
    /\ downloading' = SetDownloading(downloading, downloads[i].format, FALSE)
    /\ downloads' = RemoveAt(downloads, i)
    /\ UNCHANGED <<alerts, warnings, tableVars, scraperVars, appVars, submits>>

\* handleDownload resumes with the blob and saving it throws: the catch and
\* finally blocks run, the statistics are not reached
DownloadSaveThrows(i, err) ==
    /\ i \in 1..Len(downloads)
    /\ downloads[i].phase = "fulfilled"
    /\ alerts' = Append(alerts, AlertText(err))
    /\ downloading' = SetDownloading(downloading, downloads[i].format, FALSE)
    /\ downloads' = RemoveAt(downloads, i)
    /\ UNCHANGED <<downloadStats, warnings, tableVars, scraperVars, appVars, submits>>

\* the catch block without the finally block
DownloadFailedNoCleanup(i) ==
    /\ i \in 1..Len(downloads)
    /\ downloads[i].phase = "rejected"
    /\ alerts' = Append(alerts, AlertText(downloads[i].settled))
    /\ downloads' = RemoveAt(downloads, i)
    /\ UNCHANGED <<downloading, downloadStats, warnings, tableVars, scraperVars, appVars,
                   submits>>

\* handleDownload resumes with the error of downloadFile: the catch and
\* finally blocks
DownloadFailed(i) ==
    /\ i \in 1..Len(downloads)
    /\ downloads[i].phase = "rejected"
    /\ alerts' = Append(alerts, AlertText(downloads[i].settled))
    /\ downloading' = SetDownloading(downloading, downloads[i].format, FALSE)
    /\ downloads' = RemoveAt(downloads, i)
    /\ UNCHANGED <<downloadStats, warnings, tableVars, scraperVars, appVars, submits>>

\* the handleDownload calls made so far: each has returned early with a
\* warning, or is under way, or has counted a
\* download, or has shown an alert
Started == Len(warnings) + downloadStats.totalDownloads + Len(alerts) + Len(downloads)

DownloadNext ==
    \/ \E format \in Formats : Started < MaxDownloads /\ handleDownload(format)
    \/ \E i \in 1..Len(downloads) : downloadFile(i)
    \/ \E i \in 1..Len(downloads) : \E blob \in Blobs : GetResolves(i, blob)
    \/ \E i \in 1..Len(downloads) : \E err \in DownloadTransportErrors : GetRejects(i, err)
    \/ \E i \in 1..Len(downloads) :
           \E first \in 1..Len(Timestamps) :
               \E second \in first..Len(Timestamps) : DownloadSaved(i, first, second)
    \/ \E i \in 1..Len(downloads) : \E err \in SaveErrors : DownloadSaveThrows(i, err)
    \/ \E i \in 1..Len(downloads) : DownloadFailed(i)

\* error.message of the errors handleSubmit gives to handleScrapeError: the
\* message of an answer without success, or of the error scrapeJobs threw
ScrapeFailureTexts ==
    {IF result.message # "" THEN result.message ELSE "Scraping failed" :
         result \in {answer \in ScrapeData : ~answer.success}}
    \cup {EnhancedError(err).message : err \in TransportErrors}

\* what App can hold as scrapeResults while no scrape is under way: nothing
\* yet, the result of a scrape that succeeded (with or without jobs), or the
\* result handleScrapeError stores
HeldResults ==
    {Null}
    \cup {result \in ScrapeData : result.success}
    \cup {ErrorResult(message) : message \in ScrapeFailureTexts}

\* no scrape is under way and no download has been asked for
DownloadInit ==
    /\ JobScraperInit
    /\ DownloadButtonsInit
    /\ isLoading = FALSE
    /\ scrapeResults \in HeldResults
    /\ jobs = <<>> /\ jobsDefined = FALSE /\ totalJobs = 0
    /\ TableStateInit

SpecDownload == DownloadInit /\ [][DownloadNext]_vars

\* more downloads than the history keeps, of two formats, with one answer
\* of each kind and one reading of the clock
MaxHistoryDownloads == 12

HistoryFormats == {"csv", "json"}

HistoryBlob == [size |-> 2048]

HistoryError == [message |-> "Network Error", response |-> Null]

HistoryNext ==
    \/ \E format \in HistoryFormats : Started < MaxHistoryDownloads /\ handleDownload(format)
    \/ \E i \in 1..Len(downloads) : downloadFile(i)
    \/ \E i \in 1..Len(downloads) : GetResolves(i, HistoryBlob)
    \/ \E i \in 1..Len(downloads) : GetRejects(i, HistoryError)
    \/ \E i \in 1..Len(downloads) : DownloadSaved(i, 1, 1)
    \/ \E i \in 1..Len(downloads) : DownloadFailed(i)

\* App holds a result with jobs
HistoryInit == DownloadInit /\ hasData

SpecHistory == HistoryInit /\ [][HistoryNext]_vars

\* the next step of the handleDownload call for a format
DownloadStep(format) ==
    \E i \in 1..Len(downloads) :
        /\ downloads[i].format = format
        /\ \/ downloadFile(i)
           \/ \E blob \in Blobs : GetResolves(i, blob)
           \/ \E err \in DownloadTransportErrors : GetRejects(i, err)
           \/ \E first \in 1..Len(Timestamps) :
                  \E second \in first..Len(Timestamps) : DownloadSaved(i, first, second)
           \/ \E err \in SaveErrors : DownloadSaveThrows(i, err)
           \/ DownloadFailed(i)

\* the import resolves, axios settles every request (timeout: 300000), and
\* the continuation of a settled promise runs
DownloadFairness == \A format \in Formats : WF_vars(DownloadStep(format))

SpecDownloadLive == SpecDownload /\ DownloadFairness

-----
(* Properties of the filter and the sort                                    *)

Range(seq) == {seq[i] : i \in 1..Len(seq)}

\* the two cases of each letter
CasePairs == {<<UpperChars[i], LowerChars[i]>> : i \in 1..Len(UpperChars)}

\* two characters that are the same letter in either case, or equal
SameIgnoringCase(c, d) == c = d \/ <<c, d>> \in CasePairs \/ <<d, c>> \in CasePairs

\* text occurs in value at some offset, letter case ignored
OccursIgnoringCase(value, text) ==
    \E off \in 0..(Len(value) - Len(text)) :
        \A j \in 1..Len(text) : SameIgnoringCase(value[off + j], text[j])

Missing(value) == value = Undefined \/ value = <<>>

MatchesText(job, text) ==
    \E f \in {"Title", "Company", "Location"} :
        ~Missing(job[f]) /\ OccursIgnoringCase(job[f], text)

\* C1 as stated: a record is in the processed view if and only if the filter
\* text is empty or is, case-insensitively, a substring of its Title, Company
\* or Location. Fails for a filter text of white space only, which the code
\* treats as no filter.
C1_FilterIffEmptyOrMatch ==
    jobsDefined =>
        \A shown \in {Range(processedIdx)} : \A i \in 1..Len(jobs) :
            (i \in shown) <=> (filterText = <<>> \/ MatchesText(jobs[i], filterText))

\* C1 amended: a record is in the processed view if and only if the filter
\* text is empty after trimming or is, case-insensitively and untrimmed, a
\* substring of the record's Title, Company or Location; filtering the three
\* example records by 'acme' yields exactly the first two.
C1_FilterIffBlankOrMatch ==
    jobsDefined =>
        /\ \A shown \in {Range(processedIdx)} : \A i \in 1..Len(jobs) :
              (i \in shown) <=>
                  (trim(filterText) = <<>> \/ MatchesText(jobs[i], filterText))
        /\ (jobs = ExampleJobs /\ filterText = toLowerCase(sAcme) /\ sortField = "")
              => processedIdx = <<1, 2>>

C1_Witness ==
    /\ jobsDefined /\ jobs = ExampleJobs
    /\ filterText = toLowerCase(sAcme)
    /\ processedIdx = <<1, 2>>

\* C2: the processed view holds exactly the records that pass the filter on
\* the full list, each once; with no sort field they keep their arrival
\* order, and with a sort field they are in the order the comparator asks for.
C2_FilterThenSort ==
    jobsDefined =>
        \A view \in {processedIdx} :
        LET passing == {i \in 1..Len(jobs) :
                           FilterActive(filterText) => FilterCallback(jobs[i], filterText)}
        IN /\ Range(view) = passing
           /\ Len(view) = Cardinality(passing)
           /\ sortField = "" => \A p, q \in 1..Len(view) : p < q => view[p] < view[q]
           /\ sortField # "" =>
                 \A p, q \in 1..Len(view) : p < q =>
                     SortComparator(jobs[view[p]], jobs[view[q]], sortField, sortDirection) <= 0

C2_Witness ==
    /\ jobsDefined /\ sortField # "" /\ FilterActive(filterText)
    /\ Len(processedIdx) >= 2 /\ Len(processedIdx) < Len(jobs)
    /\ \E p \in 1..(Len(processedIdx) - 1) : processedIdx[p] > processedIdx[p + 1]

\* the sort key of a record: the field, a missing value as the empty string
SortKey(job, field) == IF Missing(job[field]) THEN <<>> ELSE job[field]

\* C3: with a sort field set, ascending keys never decrease along the view
\* and descending keys never increase, and in both directions records with
\* equal keys keep their original relative order; descending is reached only
\* by a second click on the same header; the example sorted by Company
\* ascending stays Acme, Acme, Beta in the original order.
C3_SortStableBothDirections ==
    jobsDefined =>
        \A view \in {processedIdx} :
           /\ sortDirection = "desc" => sortField # ""
           /\ sortField # "" =>
                 \A p, q \in 1..Len(view) : p < q =>
                     LET c == localeCompare(SortKey(jobs[view[p]], sortField),
                                            SortKey(jobs[view[q]], sortField))
                     IN /\ sortDirection = "asc" => c <= 0
                        /\ sortDirection = "desc" => c >= 0
                        /\ c = 0 => view[p] < view[q]
           /\ (jobs = ExampleJobs /\ sortField = "Company" /\ sortDirection = "asc"
                 /\ filterText = <<>>) => view = <<1, 2, 3>>

C3_Witness ==
    /\ jobsDefined /\ sortField = "Company" /\ sortDirection = "desc"
    /\ jobs = ExampleJobs /\ filterText = <<>>
    /\ processedIdx = <<3, 1, 2>>

-----------------------------------------------------------------------------
(* Properties of the analytics and the rows                                 *)

\* the name a record is counted under
NameKey(value) == IF Missing(value) THEN sUnknown ELSE value

NamesOf(list, field) == {NameKey(list[i][field]) : i \in 1..Len(list)}

CountOf(list, field, name) == Cardinality({i \in 1..Len(list) : NameKey(list[i][field]) = name})

FirstOf(list, field, name) ==
    CHOOSE i \in 1..Len(list) :
        /\ NameKey(list[i][field]) = name
        /\ \A j \in 1..(i - 1) : NameKey(list[j][field]) # name

\* C4: for a non-empty job list the summary's totalJobs is the length of the
\* list whatever total_jobs the response carried, uniqueCompanies and
\* uniqueLocations count the distinct names with every missing value under
\* 'Unknown' and so never exceed the length; an empty or absent list yields
\* the no-data signal.
C4_AnalyticsCounts ==
    \A a \in {analytics} :
        IF jobsDefined /\ Len(jobs) > 0
        THEN /\ a # NoData
             /\ a.totalJobs = Len(jobs)
             /\ a.uniqueCompanies = Cardinality(NamesOf(jobs, "Company"))
             /\ a.uniqueLocations = Cardinality(NamesOf(jobs, "Location"))
             /\ a.uniqueCompanies <= Len(jobs)
             /\ a.uniqueLocations <= Len(jobs)
        ELSE a = NoData

C4_Witness ==
    /\ jobsDefined /\ Len(jobs) = 3 /\ totalJobs # Len(jobs)
    /\ analytics.totalJobs = 3
    /\ \E i, j, k \in 1..Len(jobs) :
          jobs[i].Location = Undefined /\ jobs[j].Location = sUnknown /\ jobs[k].Location = <<>>
    /\ analytics.uniqueLocations = 1 /\ analytics.uniqueCompanies = 2

\* round(100 * k / n), halves upwards, in exact arithmetic
RoundedPercent(k, n) == (200 * k + n) \div (2 * n)

\* C5: for a non-empty list of N records of which k have a Link that is
\* present and not 'N/A', validLinksPercentage is round(100 * k / N), an
\* integer in 0..100, 100 when k = N and 0 when k = 0.
C5_PercentageIsRounded ==
    (jobsDefined /\ Len(jobs) > 0) =>
        \A k \in {Cardinality({i \in 1..Len(jobs) :
                                  ~Missing(jobs[i].Link) /\ jobs[i].Link # sNA})} :
        \A pct \in {analytics.validLinksPercentage} :
            /\ pct = RoundedPercent(k, Len(jobs))
            /\ pct \in 0..100
            /\ k = Len(jobs) => pct = 100
            /\ k = 0 => pct = 0

\* the top list of one field is the first three names by count, a tie
\* decided by which name the list mentions first
TopIsByCountThenFirstSeen(top, list, field) ==
    LET names == NamesOf(list, field)
        before(n1, n2) ==
            \/ CountOf(list, field, n1) > CountOf(list, field, n2)
            \/ /\ CountOf(list, field, n1) = CountOf(list, field, n2)
               /\ FirstOf(list, field, n1) < FirstOf(list, field, n2)
    IN /\ Len(top) = (IF Cardinality(names) < 3 THEN Cardinality(names) ELSE 3)
       /\ \A p \in 1..Len(top) :
             top[p][1] \in names /\ top[p][2] = CountOf(list, field, top[p][1])
       /\ \A p, q \in 1..Len(top) : p < q => before(top[p][1], top[q][1])
       /\ \A n \in names \ {top[p][1] : p \in 1..Len(top)} :
             \A p \in 1..Len(top) : before(top[p][1], n)

\* C6: topCompanies and topLocations have at most 3 entries in order of
\* non-increasing count, hold the highest counts, and among equal counts the
\* name first encountered in the job list comes first and survives the cut.
C6_TopThreeFirstSeenTies ==
    (jobsDefined /\ Len(jobs) > 0) =>
        \A a \in {analytics} :
            /\ TopIsByCountThenFirstSeen(a.topCompanies, jobs, "Company")
            /\ TopIsByCountThenFirstSeen(a.topLocations, jobs, "Location")

\* C7: every row of the processed view shows a text in each cell: the field
\* itself, or 'No Title' / 'Unknown Company' / 'Location Not Specified' when
\* the field is absent or empty; the row has a hyperlink exactly when Link is
\* present and not 'N/A', which are the records the valid-link count counts.
C7_RowsNeverEmpty ==
    TableShown =>
        \A rows \in {renderedRows} : \A view \in {processedIdx} :
            /\ Len(rows) = Len(view)
            /\ \A p \in 1..Len(rows) :
                  LET job == jobs[view[p]]
                      row == rows[p]
                  IN /\ row.title # <<>> /\ row.company # <<>> /\ row.location # <<>>
                     /\ row.title # Undefined /\ row.company # Undefined
                     /\ row.location # Undefined
                     /\ row.title = (IF Missing(job.Title) THEN sNoTitle ELSE job.Title)
                     /\ row.company =
                           (IF Missing(job.Company) THEN sUnknownCompany ELSE job.Company)
                     /\ row.location =
                           (IF Missing(job.Location) THEN sLocationNotSpecified
                            ELSE job.Location)
                     /\ row.hyperlink <=> (~Missing(job.Link) /\ job.Link # sNA)
                     /\ row.hyperlink <=> CountsAsValidLink(job)
            /\ Len(view) = Len(jobs) =>
                  Cardinality({p \in 1..Len(rows) : rows[p].hyperlink}) = ValidLinks(jobs)

C7_Witness ==
    /\ TableShown /\ Len(renderedRows) = 3
    /\ \E p, q, r \in 1..3 :
          /\ jobs[processedIdx[p]].Title = Undefined /\ jobs[processedIdx[p]].Link = sNA
          /\ renderedRows[p].title = sNoTitle /\ ~renderedRows[p].hyperlink
          /\ jobs[processedIdx[q]].Title = <<>> /\ jobs[processedIdx[q]].Link = <<>>
          /\ renderedRows[q].location = sLocationNotSpecified /\ ~renderedRows[q].hyperlink
          /\ renderedRows[r].hyperlink

-----------------------------------------------------------------------------
(* Properties of the validation of a scrape submission                      *)

\* the numbers of pages a caller may hand to the form or to scrapeJobs
PagesArguments == -2..15

AllowedPages == {1, 2, 3, 4, 5, 6, 7, 8, 9, 10}

BoundMessage == "Pages must be between 1 and 10"

\* the POST /scrape requests under way
Requests == {submits[i].request : i \in {j \in 1..Len(submits) : submits[j].phase = "post"}}

IsBlank(text) == \A i \in 1..Len(text) : text[i] = " "

\* the number of characters from the first to the last that is not a space
TrimmedLength(text) ==
    LET solid == {i \in 1..Len(text) : text[i] # " "}
    IN IF solid = {} THEN 0
       ELSE (CHOOSE i \in solid : \A j \in solid : j <= i)
            - (CHOOSE i \in solid : \A j \in solid : i <= j) + 1

\* C8: a submission whose pages value is outside 1..10 is rejected before any
\* network call with a message that names the 1-10 bound, by the form when it
\* is submitted and by scrapeJobs when it is called; every POST /scrape under
\* way carries an integer pages value in 1..10.
C8_PagesOutOfRangeNeverSent ==
    /\ [](/\ \A request \in Requests : request.pages \in AllowedPages
          /\ validationErrors.pages # ""
                => validationErrors.pages = BoundMessage /\ formData.pages \notin AllowedPages
          /\ \A pages \in PagesArguments \ AllowedPages :
                 \A title \in TitleTexts :
                    ~IsBlank(title) => ScrapeJobsValidation(title, pages) = BoundMessage)
    /\ [][handleSubmit /\ formData.pages \notin AllowedPages
            => validationErrors'.pages = BoundMessage /\ submits' = submits]_vars

\* pages 15 was submitted and turned down by the form: the message is shown
\* and nothing is under way
C8_Witness ==
    /\ formData.pages = 15
    /\ validationErrors.pages = BoundMessage
    /\ submits = <<>>
    /\ ~scraperIsLoading

\* C9 as stated: title validation rejects a submission exactly when the title
\* is empty after trimming, in the form and in scrapeJobs alike.
C9_TitleRejectedIffBlank ==
    /\ [](\A title \in TitleTexts : ScrapeJobsValidation(title, 1) # "" <=> IsBlank(title))
    /\ [][handleSubmit
            => (validationErrors'.jobTitle # "" <=> IsBlank(formData.jobTitle))]_vars

\* C9: the form rejects a submission exactly when the title has fewer than
\* two characters after trimming, with "Job title is required" for none and
\* "Job title must be at least 2 characters" for one, and then starts nothing;
\* scrapeJobs rejects exactly when the title is empty after trimming; no
\* request under way has an empty title.
C9_TitleRejectedIffShort ==
    /\ [](/\ \A title \in TitleTexts : ScrapeJobsValidation(title, 1) # "" <=> IsBlank(title)
          /\ \A i \in 1..Len(submits) : TrimmedLength(submits[i].jobTitle) >= 2
          /\ \A request \in Requests : Len(request.job_title) >= 2)
    /\ [][handleSubmit
            => /\ validationErrors'.jobTitle # "" <=> TrimmedLength(formData.jobTitle) < 2
               /\ TrimmedLength(formData.jobTitle) = 0
                     => validationErrors'.jobTitle = "Job title is required"
               /\ TrimmedLength(formData.jobTitle) = 1
                     => validationErrors'.jobTitle = "Job title must be at least 2 characters"
               /\ validationErrors'.jobTitle # "" => submits' = submits]_vars

\* a title of one character was submitted with pages in range: the form
\* turned it down and nothing is under way
C9_Witness ==
    /\ TrimmedLength(formData.jobTitle) = 1
    /\ validationErrors.jobTitle = "Job title must be at least 2 characters"
    /\ validationErrors.pages = ""
    /\ formData.pages \in AllowedPages
    /\ submits = <<>>

-----------------------------------------------------------------------------
(* Properties of a download request                                         *)

SupportedFormats == {"csv", "excel", "json"}

\* the error says that the format is not a supported one
IsUnsupportedFormatError(err, format) == err.message = "Invalid format: " \o format

\* C10: a download request for a format outside csv, excel and json is
\* rejected with an unsupported-format error and issues no GET /download
\* request; for a supported format the call issues the one request
\* GET /download/<format>.
C10_UnsupportedFormatRejected ==
    /\ [](\A i \in 1..Len(downloads) :
             /\ downloads[i].request # Null
                   => /\ downloads[i].format \in SupportedFormats
                      /\ downloads[i].request.method = "GET"
                      /\ downloads[i].request.url = "/download/" \o downloads[i].format
             /\ downloads[i].format \notin SupportedFormats /\ downloads[i].phase = "rejected"
                   => IsUnsupportedFormatError(downloads[i].settled, downloads[i].format))
    /\ [][\A i \in 1..Len(downloads) :
             downloadFile(i)
                 => IF downloads[i].format \in SupportedFormats
                    THEN downloads'[i].request # Null
                    ELSE downloads'[i].request = Null /\ downloads'[i].phase = "rejected"]_vars

-----------------------------------------------------------------------------
(* Properties of the busy flags and the download statistics                 *)

IsBusy(format) == format \in DOMAIN downloading /\ downloading[format] = TRUE

IsCleared(format) == format \in DOMAIN downloading /\ downloading[format] = FALSE

\* the call at position i ends in this step by saving the file
EndsSaved(i) ==
    \E first \in 1..Len(Timestamps) :
        \E second \in 1..Len(Timestamps) : DownloadSaved(i, first, second)

\* the call at position i ends in this step on a failing path
EndsFailing(i) == DownloadFailed(i) \/ \E err \in SaveErrors : DownloadSaveThrows(i, err)

\* C11: for every format, a busy flag that handleDownload has set is cleared
\* again; the step that ends the handler leaves the flag of its format false,
\* shows exactly one alert when it ends on a failing path (rejected request,
\* invalid format, saving throws) and none when the file was saved.
C11_BusyFlagCleared ==
    /\ \A format \in Formats : IsBusy(format) ~> IsCleared(format)
    /\ [][\A format \in Formats :
             \A i \in {j \in 1..Len(downloads) : downloads[j].format = format} :
                /\ EndsSaved(i) => IsCleared(format)' /\ alerts' = alerts
                /\ EndsFailing(i)
                      => /\ IsCleared(format)'
                         /\ Len(alerts') = Len(alerts) + 1
                         /\ SubSeq(alerts', 1, Len(alerts)) = alerts]_vars

\* a download of an invalid format has ended: one alert, flag cleared
C11_Witness ==
    /\ IsCleared("pdf")
    /\ Len(alerts) = 1
    /\ downloads = <<>>
    /\ downloadStats.totalDownloads = 0

\* the handleDownload calls under way for a format
Outstanding(format) == {i \in 1..Len(downloads) : downloads[i].format = format}

\* the call at position i ends in this step
Ends(i) == EndsSaved(i) \/ EndsFailing(i)

\* C12: the busy flag of a format is true exactly while a download of that
\* format is under way, also while downloads of other formats are under way;
\* a step that starts or ends a download of one format leaves the flag of
\* every other format as it was.
C12_FlagsPerFormat ==
    /\ [](\A format \in Formats : IsBusy(format) <=> Outstanding(format) # {})
    /\ [][\A other \in Formats :
             \A format \in Formats \ {other} :
                (handleDownload(other) \/ \E i \in Outstanding(other) : Ends(i))
                    => /\ IsBusy(format)' <=> IsBusy(format)
                       /\ IsCleared(format)' <=> IsCleared(format)]_vars

\* a csv and a json download are under way together, the request of one still
\* unanswered, the other ended before
C12_Witness ==
    /\ IsBusy("csv") /\ IsBusy("json")
    /\ Outstanding("csv") # {} /\ Outstanding("json") # {}
    /\ \E i \in Outstanding("csv") : downloads[i].phase = "get"
    /\ \E i \in Outstanding("json") : downloads[i].phase = "fulfilled"

HistoryCap == 10

\* the history after one more successful download: the oldest entry gives
\* way once ten are held
WithOneMore(history, entry) ==
    IF Len(history) < HistoryCap THEN history \o <<entry>>
    ELSE [k \in 1..HistoryCap |-> IF k < HistoryCap THEN history[k + 1] ELSE entry]

\* C13: downloadHistory holds the min(totalDownloads, 10) most recent
\* successful downloads in completion order: it has that length, never more
\* than 10, lastDownload is its last element once a download succeeded, each
\* successful download counts once and enters at the end while the oldest of
\* ten leaves, and every other step, a failed download among them, leaves
\* history, lastDownload and totalDownloads as they were.
C13_HistoryKeepsLastTen ==
    /\ [](\A n \in {downloadStats.totalDownloads} :
             \A history \in {downloadStats.downloadHistory} :
                /\ Len(history) <= HistoryCap
                /\ Len(history) = (IF n < HistoryCap THEN n ELSE HistoryCap)
                /\ n > 0 => downloadStats.lastDownload = history[Len(history)]
                /\ n = 0 => downloadStats.lastDownload = Null)
    /\ [][/\ \A i \in 1..Len(downloads) :
                EndsSaved(i)
                    => /\ downloadStats'.totalDownloads = downloadStats.totalDownloads + 1
                       /\ downloadStats'.lastDownload.format = downloads[i].format
                       /\ downloadStats'.lastDownload.size = downloads[i].settled.size
                       /\ downloadStats'.downloadHistory
                             = WithOneMore(downloadStats.downloadHistory,
                                           downloadStats'.lastDownload)
          /\ (~\E i \in 1..Len(downloads) : EndsSaved(i))
                => downloadStats' = downloadStats]_vars

\* eleven downloads of both formats succeeded and one failed: the history
\* holds ten, the first one has left
C13_Witness ==
    /\ downloadStats.totalDownloads = 11
    /\ Len(downloadStats.downloadHistory) = HistoryCap
    /\ Len(alerts) = 1
    /\ downloadStats.downloadHistory[1].format = "json"
    /\ downloadStats.downloadHistory[HistoryCap].format = "csv"
    /\ downloadStats.lastDownload.format = "csv"

-----------------------------------------------------------------------------
(* Properties of a scrape cycle                                             *)

\* where App is in the cycle; validating happens within the step of handleSubmit
CycleState ==
    IF isLoading THEN "Submitting"
    ELSE IF scrapeResults = Null THEN "Idle"
    ELSE IF scrapeResults.success THEN "Displaying"
    ELSE "ErrorDisplayed"

Resting == {"Idle", "Displaying", "ErrorDisplayed"}

\* a POST /scrape is answered with a result
Answered(result) == \E i \in 1..Len(submits) : ScrapeResolves(i, result)

\* a POST /scrape fails in transport, or the import of the request client fails
Failed ==
    \E i \in 1..Len(submits) :
        \/ \E err \in TransportErrors : ScrapeRejects(i, err)
        \/ \E err \in ImportErrors : ImportRejects(i, err)

\* C14: a scrape cycle moves from a resting state (Idle, Displaying,
\* ErrorDisplayed) through validation either back to the same state with
\* field errors, no request and the results unchanged, or to Submitting;
\* from Submitting to Displaying the returned result on success, and to
\* ErrorDisplayed on a response with success = false and on a transport
\* error alike; nothing else changes the state, and a resting state is left
\* only by a submission that passes validation.
C14_ScrapeCycle ==
    /\ [](CycleState = "Submitting" <=> submits # <<>>)
    /\ [][/\ CycleState' # CycleState
                => \/ CycleState \in Resting /\ CycleState' = "Submitting"
                   \/ CycleState = "Submitting" /\ CycleState' \in {"Displaying", "ErrorDisplayed"}
          /\ CycleState \in Resting /\ (CycleState' # CycleState \/ scrapeResults' # scrapeResults)
                => handleSubmit /\ FormIsValid(formData)
          /\ handleSubmit /\ ~FormIsValid(formData)
                => /\ CycleState' = CycleState
                   /\ validationErrors' # NoErrors
                   /\ UNCHANGED <<submits, scrapeResults, isLoading>>
          /\ handleSubmit /\ FormIsValid(formData)
                => CycleState' = "Submitting" /\ Len(submits') = Len(submits) + 1
          /\ \A result \in ScrapeAnswers :
                Answered(result)
                    => IF result # Null /\ result.success
                       THEN CycleState' = "Displaying" /\ scrapeResults' = result
                       ELSE CycleState' = "ErrorDisplayed"
          /\ Failed => CycleState' = "ErrorDisplayed"
          /\ CycleState = "Submitting" /\ CycleState' # CycleState
                => Failed \/ \E result \in ScrapeAnswers : Answered(result)]_vars

\* a scrape failed, the form was changed to an invalid one and submitted:
\* the error stays displayed, with field errors and nothing under way
C14_Witness ==
    /\ CycleState = "ErrorDisplayed"
    /\ validationErrors # NoErrors
    /\ submits = <<>>

\* a scrape fails in this step: a transport error, a failed import, a null
\* body, or an answer with success = false
ScrapeFails ==
    \/ Failed
    \/ \E result \in ScrapeAnswers : (result = Null \/ ~result.success) /\ Answered(result)

Interactive == ~scraperIsLoading /\ ~isLoading /\ SubmitEnabled

\* C15: after any failure of a scrape the UI is interactive again: a
\* submission under way always settles, the step in which it fails leaves
\* both loading flags false and the submit button enabled and displays a
\* failure message in the form and in the stored result, and a loading flag
\* is set only while a submission is under way.
C15_InteractiveAfterFailure ==
    /\ (scraperIsLoading \/ isLoading) ~> Interactive
    /\ [](scraperIsLoading \/ isLoading => submits # <<>>)
    /\ [][ScrapeFails
            => /\ Interactive'
               /\ error' # ""
               /\ scrapeResults' # Null
               /\ ~scrapeResults'.success
               /\ scrapeResults'.message # ""]_vars

\* a scrape timed out: the message of the timeout is displayed and the form
\* can be submitted again
C15_Witness ==
    /\ Interactive
    /\ error = "Error: Request timed out. Scraping took too long."
    /\ scrapeResults # Null
    /\ scrapeResults.message = "Request timed out. Scraping took too long."
    /\ submits = <<>>

-----------------------------------------------------------------------------
(* Properties of the request client                                         *)

\* the errors scrapeJobs can catch: with or without a response, any code,
\* with or without a message
CaughtErrors ==
    [message : {"", "Network Error"},
     code : {"", "ECONNABORTED", "ECONNREFUSED", "ERR_NETWORK"},
     response : {Null, ErrorResponse(500, "Scraper crashed", "Internal"),
                 ErrorResponse(422, "", "Unprocessable"), ErrorResponse(502, "", "")}]

ServerResponded(err) == err.response # Null

TimedOut(err) == err.response = Null /\ err.code = "ECONNABORTED"

ConnectionRefused(err) == err.response = Null /\ err.code = "ECONNREFUSED"

OtherFailure(err) == err.response = Null /\ err.code \notin {"ECONNABORTED", "ECONNREFUSED"}

\* the message the classification asks for
ClassifiedMessage(err) ==
    CASE ServerResponded(err) /\ err.response.data.detail # "" -> err.response.data.detail
      [] ServerResponded(err) /\ err.response.data.detail = ""
            /\ err.response.data.message # "" -> err.response.data.message
      [] ServerResponded(err) /\ err.response.data.detail = "" /\ err.response.data.message = ""
            -> "Server error (" \o ToString(err.response.status) \o ")"
      [] TimedOut(err) -> "Request timed out. Scraping took too long."
      [] ConnectionRefused(err) -> "Cannot connect to server. Make sure backend is running."
      [] OtherFailure(err) /\ err.message # "" -> err.message
      [] OtherFailure(err) /\ err.message = "" -> "Scraping failed"

\* C16: the error scrapeJobs throws for a failure carries the original error
\* and its response and one message: the response's detail, else its message,
\* else 'Server error (<status>)' when the server responded, whatever the
\* code; else the timed-out message for ECONNABORTED; else the cannot-connect
\* message for ECONNREFUSED; else the original message, or 'Scraping failed'
\* when there is none. A failed request stores that message in App's result.
C16_FailureNormalized ==
    /\ [](\A err \in CaughtErrors \cup TransportErrors :
             /\ EnhancedError(err).message = ClassifiedMessage(err)
             /\ EnhancedError(err).originalError = err
             /\ EnhancedError(err).response = err.response)
    /\ [][\A err \in TransportErrors :
             (\E i \in 1..Len(submits) : ScrapeRejects(i, err))
                 => scrapeResults' # Null /\ scrapeResults'.message = ClassifiedMessage(err)]_vars

\* a request was answered with status 502 and no detail and no message
C16_Witness ==
    /\ scrapeResults # Null
    /\ scrapeResults.message = "Server error (502)"
    /\ error = "Error: Server error (502)"
    /\ submits = <<>>

\* the text from its first to its last character that is not a space
Stripped(text) ==
    LET solid == {i \in 1..Len(text) : text[i] # " "}
    IN IF solid = {} THEN <<>>
       ELSE SubSeq(text, CHOOSE i \in solid : \A j \in solid : i <= j,
                         CHOOSE i \in solid : \A j \in solid : j <= i)

\* the handleSubmit calls whose POST /scrape is under way
Posting == {i \in 1..Len(submits) : submits[i].phase = "post"}

\* C17: every POST /scrape carries as job_title the title entered when the
\* form was submitted, without the white space around it, which is not
\* empty, and as location the entered location without the white space
\* around it, or 'Remote' when nothing is left of it; the location is never
\* blank.
C17_RequestCarriesTrimmedTexts ==
    /\ [](\A i \in Posting :
             /\ submits[i].request.job_title = Stripped(submits[i].jobTitle)
             /\ submits[i].request.job_title # <<>>
             /\ submits[i].request.location
                   = (IF IsBlank(submits[i].location) THEN <<"R","e","m","o","t","e">>
                      ELSE Stripped(submits[i].location))
             /\ ~IsBlank(submits[i].request.location))
    /\ [][handleSubmit /\ submits' # submits
            => /\ submits'[Len(submits')].jobTitle = formData.jobTitle
               /\ submits'[Len(submits')].location = formData.location]_vars

\* the title ' dev ' was submitted with a location of spaces only: the
\* request carries 'dev' and 'Remote'
C17_Witness ==
    \E i \in Posting :
        /\ submits[i].jobTitle = <<" ","d","e","v"," ">>
        /\ submits[i].location = <<" "," ">>
        /\ submits[i].request.job_title = <<"d","e","v">>
        /\ submits[i].request.location = <<"R","e","m","o","t","e">>

-----------------------------------------------------------------------------
(* Algebraic properties of the filter                                       *)

\* the records the filter step keeps, in their order
Filtered(list, text) ==
    LET kept == FilteredIdx(list, text)
    IN [k \in 1..Len(kept) |-> list[kept[k]]]

\* C18: filtering is idempotent: the filter applied with the same text to
\* the list it has produced gives that list again, the same records in the
\* same order.
C18_FilterIdempotent ==
    jobsDefined =>
        \A once \in {Filtered(jobs, filterText)} : Filtered(once, filterText) = once

\* the filter 'acme' has dropped one of three records
C18_Witness ==
    /\ jobsDefined /\ jobs = ExampleJobs
    /\ filterText = <<"a","c","m","e">>
    /\ Len(Filtered(jobs, filterText)) = 2
    /\ Filtered(Filtered(jobs, filterText), filterText) = <<jobs[1], jobs[2]>>

-----------------------------------------------------------------------------
(* Properties of concurrent submissions                                     *)

\* C19 as stated: a second submission is not blocked while one is in flight:
\* with a request under way and a valid form, the submit handler can run.
C19_SecondSubmitNotBlocked ==
    Posting # {} /\ FormIsValid(formData) => ENABLED handleSubmit

\* C19: the UI blocks a second submission while one is in flight: the submit
\* button is disabled as long as a handleSubmit call has not returned, so
\* the handler cannot run then, and at most one call and one POST /scrape
\* are under way at any time.
C19_OneSubmissionAtATime ==
    /\ Len(submits) <= 1
    /\ Cardinality(Posting) <= 1
    /\ submits # <<>> <=> scraperIsLoading
    /\ submits # <<>> => ~SubmitEnabled /\ ~ENABLED handleSubmit

\* a request is under way, the form is valid, and the button is disabled
C19_Witness ==
    /\ Posting # {}
    /\ FormIsValid(formData)
    /\ ~SubmitEnabled

\* C20: starting a scrape discards the result held before: while a
\* handleSubmit call has not returned, its request under way or not yet, App
\* is loading and holds no result, so the job table and the download section
\* are not shown; they are shown only when no request is under way.
C20_NoResultWhileScraping ==
    /\ [](/\ submits # <<>> => isLoading /\ scrapeResults = Null
          /\ Posting # {} => isLoading /\ scrapeResults = Null
          /\ ResultsShown \/ DownloadButtonsShown => submits = <<>> /\ ~isLoading)
    /\ [][handleSubmit /\ FormIsValid(formData)
            => scrapeResults' = Null /\ isLoading' /\ ~ResultsShown']_vars

\* a request is under way: App is loading, holds no result and shows no
\* results section
C20_Witness ==
    /\ Posting # {}
    /\ isLoading
    /\ scrapeResults = Null
    /\ ~ResultsShown

-----------------------------------------------------------------------------
(* Downloads and the result held                                            *)

\* the result App holds has at least one job
HoldsJobs == scrapeResults # Null /\ scrapeResults.jobs # <<>>

\* the requests GET /download/<format> under way
Getting == {i \in 1..Len(downloads) : downloads[i].request # Null}

\* DownloadButtons is as constructed: no busy flag was set, no handleDownload
\* call is under way, and the statistics count no download
NothingDownloaded ==
    /\ downloading = <<>>
    /\ downloads = <<>>
    /\ downloadStats = [totalDownloads |-> 0, lastDownload |-> Null, downloadHistory |-> <<>>]

\* C21: a GET /download request is issued only while the result held has at
\* least one job. Without such a result (none yet, the result of a failed
\* scrape with its empty job list, or a successful scrape with zero jobs)
\* handleDownload returns without setting a busy flag, issuing a request or
\* changing the download statistics, so DownloadButtons stays as constructed.
C21_DownloadOnlyWithJobs ==
    /\ [](/\ Getting # {} => HoldsJobs
          /\ ~HoldsJobs => NothingDownloaded)
    /\ [][\A format \in Formats :
              handleDownload(format) /\ ~HoldsJobs
                  => /\ UNCHANGED <<downloading, downloads, downloadStats, alerts>>
                     /\ warnings' = Append(warnings, NoDataWarning)]_vars

\* App holds the result of a failed scrape, handleDownload was called and
\* returned early with its warning, and nothing was downloaded
C21_Witness ==
    /\ scrapeResults # Null
    /\ ~scrapeResults.success
    /\ scrapeResults.jobs = <<>>
    /\ warnings # <<>>
    /\ NothingDownloaded

====
